---- MODULE Spec2Model ----
(***************************************************************************)
(* A model of the PR template analyzer: the Change Extractor               *)
(* (src/src/git_tools.py, class GitAnalyzer), the Template Store and the   *)
(* Suggestion Engine (src/src/templates.py, class TemplateManager) and the *)
(* Tool Facade (src/src/server.py).                                        *)
(*                                                                         *)
(* Python strings are sequences of one-character strings, so that len(),   *)
(* split(), strip(), join(), lower(), the in-operator and str() are        *)
(* computed the way the interpreter computes them.  A Python dict is a     *)
(* record; a call that raises returns Raised(<str of the exception>).      *)
(*                                                                         *)
(* Three specifications: MethodSpec makes one call of a method that keeps  *)
(* no state, on inputs Init draws; Spec is the server taking the git tool  *)
(* calls in any order; TemplateSpec is the server taking the template tool *)
(* calls in any order.  The tool suggest_template (server.py:114-173),     *)
(* which composes analyze_file_changes, get_pr_templates and               *)
(* get_template_suggestions, is not an action of its own.                  *)
(***************************************************************************)
EXTENDS Integers, Sequences, FiniteSets, TLC

VARIABLES
    git_analyzer,   \* server.py:16  the process-wide GitAnalyzer: its repo_path
    files,          \* templates.py:10  the template directory: file name -> text
    op,             \* the operation that ran last
    args,           \* its arguments
    ret,            \* what it returned
    changes,        \* server.py:47  what get_file_changes returned inside it
    ran_in,         \* git_tools.py:18  the cwd its git subprocesses ran in
    last_ok         \* template name -> content of its last create that returned True

vars == <<git_analyzer, files, op, args, ret, changes, ran_in, last_ok>>

-----------------------------------------------------------------------------
(* Python's str operations, on sequences of characters.                    *)

\* Python's None, and the value of a variable nothing has been assigned to
None == [none |-> TRUE]

\* a call that returned v, and a call that raised an exception e with str(e) = msg
Returned(v) == [raised |-> FALSE, value |-> v]
Raised(msg) == [raised |-> TRUE, error |-> msg]

Whitespace == {" ", "\t", "\n", "\r"}

Range(s) == {s[i] : i \in DOMAIN s}

RECURSIVE SeqsUpTo(_, _)
\* every sequence over S of length <= n
SeqsUpTo(S, n) ==
    IF n = 0 THEN {<<>>}
    ELSE LET shorter == SeqsUpTo(S, n - 1)
         IN  shorter \cup {Append(s, c) : s \in shorter, c \in S}

RECURSIVE SplitFrom(_, _, _, _, _)
SplitFrom(s, sep, i, cur, acc) ==
    IF i > Len(s) THEN Append(acc, cur)
    ELSE IF s[i] = sep THEN SplitFrom(s, sep, i + 1, <<>>, Append(acc, cur))
    ELSE SplitFrom(s, sep, i + 1, Append(cur, s[i]), acc)

\* s.split(sep) for a one-character sep: "" splits into [""]
Split(s, sep) == SplitFrom(s, sep, 1, <<>>, <<>>)

RECURSIVE Join(_, _)
\* sep.join(parts)
Join(parts, sep) ==
    IF Len(parts) = 0 THEN <<>>
    ELSE IF Len(parts) = 1 THEN parts[1]
    ELSE parts[1] \o sep \o Join(Tail(parts), sep)

RECURSIVE LStrip(_)
LStrip(s) == IF s # <<>> /\ Head(s) \in Whitespace THEN LStrip(Tail(s)) ELSE s

RECURSIVE RStrip(_)
RStrip(s) ==
    IF s # <<>> /\ s[Len(s)] \in Whitespace
    THEN RStrip(SubSeq(s, 1, Len(s) - 1)) ELSE s

\* s.strip()
Strip(s) == RStrip(LStrip(s))

\* word in s
Contains(s, word) ==
    \E i \in 0..(Len(s) - Len(word)) : \A j \in 1..Len(word) : s[i + j] = word[j]

UpperCase == <<"A", "B", "C", "D", "E", "F", "G", "H", "I", "J", "K", "L", "M", "N", "O", "P", "Q", "R", "S", "T", "U", "V", "W", "X", "Y", "Z">>
LowerCase == <<"a", "b", "c", "d", "e", "f", "g", "h", "i", "j", "k", "l", "m", "n", "o", "p", "q", "r", "s", "t", "u", "v", "w", "x", "y", "z">>

LowerChar(c) ==
    IF \E i \in DOMAIN UpperCase : UpperCase[i] = c
    THEN LowerCase[CHOOSE i \in DOMAIN UpperCase : UpperCase[i] = c]
    ELSE c

UpperChar(c) ==
    IF \E i \in DOMAIN LowerCase : LowerCase[i] = c
    THEN UpperCase[CHOOSE i \in DOMAIN LowerCase : LowerCase[i] = c]
    ELSE c

IsLetter(c) == c \in Range(UpperCase) \cup Range(LowerCase)

\* s.title(): a letter is upper-cased after a non-letter, lower-cased after a letter
Title(s) ==
    [i \in DOMAIN s |->
        IF i > 1 /\ IsLetter(s[i - 1]) THEN LowerChar(s[i]) ELSE UpperChar(s[i])]

RECURSIVE Escaped(_, _)
\* the characters of s as repr() writes them between quotes of kind quote
Escaped(s, quote) ==
    IF s = <<>> THEN <<>>
    ELSE (CASE Head(s) = "\n" -> <<"\\", "n">>
            [] Head(s) = "\t" -> <<"\\", "t">>
            [] Head(s) = "\r" -> <<"\\", "r">>
            [] Head(s) = "\\" -> <<"\\", "\\">>
            [] Head(s) = quote -> <<"\\", quote>>
            [] OTHER -> <<Head(s)>>) \o Escaped(Tail(s), quote)

\* repr(s) of a str: double quotes when s holds a single quote and no double one
Repr(s) ==
    LET quote == IF "'" \in Range(s) /\ "\"" \notin Range(s) THEN "\"" ELSE "'"
    IN  <<quote>> \o Escaped(s, quote) \o <<quote>>

\* s.lower()
Lower(s) == [i \in DOMAIN s |-> LowerChar(s[i])]

DecimalDigits == <<"0", "1", "2", "3", "4", "5", "6", "7", "8", "9">>

RECURSIVE Digits(_)
\* str(n) for an int n >= 0
Digits(n) ==
    IF n < 10 THEN <<DecimalDigits[n + 1]>>
    ELSE Digits(n \div 10) \o <<DecimalDigits[(n % 10) + 1]>>

\* str(n) for an int
StrInt(n) == IF n < 0 THEN <<"-">> \o Digits(-n) ELSE Digits(n)

-----------------------------------------------------------------------------
(* GitAnalyzer: git_tools.py                                               *)

\* git_tools.py:112  the line appended in place of the lines left out
ElisionMarker(more) ==
    <<"\n", ".", ".", ".", " ", "[", "D", "I", "F", "F", " ", "T", "R", "U", "N", "C", "A", "T", "E", "D", " ", "-", " ">> \o StrInt(more) \o <<" ", "m", "o", "r", "e", " ", "l", "i", "n", "e", "s", "]", " ", ".", ".", ".">>

RECURSIVE TruncateLoopOffByOne(_, _, _, _, _)
\* TruncateLoop with the comparison of line 111 as >=
TruncateLoopOffByOne(lines, max_chars, i, truncated_lines, current_size) ==
    IF i > Len(lines) THEN truncated_lines
    ELSE LET line_size == Len(lines[i]) + 1
         IN  IF current_size + line_size >= max_chars
             THEN Append(truncated_lines,
                         ElisionMarker(Len(lines) - Len(truncated_lines)))
             ELSE TruncateLoopOffByOne(lines, max_chars, i + 1,
                                       Append(truncated_lines, lines[i]),
                                       current_size + line_size)

RECURSIVE TruncateLoop(_, _, _, _, _)
\* git_tools.py:109-115  the for loop; i is the index of the line it is at
TruncateLoop(lines, max_chars, i, truncated_lines, current_size) ==
    IF i > Len(lines) THEN truncated_lines
    ELSE LET line_size == Len(lines[i]) + 1
         IN  IF current_size + line_size > max_chars
             THEN Append(truncated_lines,
                         ElisionMarker(Len(lines) - Len(truncated_lines)))
             ELSE TruncateLoop(lines, max_chars, i + 1,
                               Append(truncated_lines, lines[i]),
                               current_size + line_size)

\* git_tools.py:105-115  truncated_lines when the loop has ended
truncated_lines_of(diff, max_chars) ==
    TruncateLoop(Split(diff, "\n"), max_chars, 1, <<>>, 0)

\* _truncate_diff with the comparison of line 101 as <
TruncateDiffStrict(diff, max_chars) ==
    IF Len(diff) < max_chars THEN diff
    ELSE Join(truncated_lines_of(diff, max_chars), <<"\n">>)

\* git_tools.py:99-117
_truncate_diff(diff, max_chars) ==
    IF Len(diff) <= max_chars THEN diff
    ELSE Join(truncated_lines_of(diff, max_chars), <<"\n">>)

status_map ==
    [A |-> <<"a", "d", "d", "e", "d">>, M |-> <<"m", "o", "d", "i", "f", "i", "e", "d">>, D |-> <<"d", "e", "l", "e", "t", "e", "d">>,
     R |-> <<"r", "e", "n", "a", "m", "e", "d">>, C |-> <<"c", "o", "p", "i", "e", "d">>, T |-> <<"t", "y", "p", "e", "_", "c", "h", "a", "n", "g", "e", "d">>]

\* git_tools.py:97  status[0] raises IndexError on an empty string
_get_change_type(status) ==
    IF Len(status) = 0 THEN Raised(<<"s", "t", "r", "i", "n", "g", " ", "i", "n", "d", "e", "x", " ", "o", "u", "t", " ", "o", "f", " ", "r", "a", "n", "g", "e">>)
    ELSE IF status[1] \in DOMAIN status_map THEN Returned(status_map[status[1]])
    ELSE Returned(<<"u", "n", "k", "n", "o", "w", "n">>)

\* _run_git_command without check=True: a non-zero exit goes unnoticed
RunGitCommandUnchecked(q) ==
    IF q.kind \in {"ok", "CalledProcessError"} THEN Returned(Strip(q.out))
    ELSE Raised(q.out)

\* git_tools.py:13-25  one git subprocess; its outcome q is the environment's:
\* exit 0 with stdout q.out, a non-zero exit with stderr q.out, or the
\* subprocess not starting (an OSError with message q.out)
_run_git_command(q) ==
    IF q.kind = "ok" THEN Returned(Strip(q.out))
    ELSE IF q.kind = "CalledProcessError"
    THEN Raised(<<"G", "i", "t", " ", "c", "o", "m", "m", "a", "n", "d", " ", "f", "a", "i", "l", "e", "d", ":", " ">> \o q.out)
    ELSE Raised(q.out)

RECURSIVE ParseChangedFiles(_, _, _)
\* git_tools.py:49-60  the loop over the name-status lines
ParseChangedFiles(changed_files, i, file_changes) ==
    IF i > Len(changed_files) THEN Returned(file_changes)
    ELSE LET line  == changed_files[i]
             parts == Split(line, "\t")
         IN  IF Strip(line) # <<>> /\ Len(parts) >= 2
             THEN LET kind == _get_change_type(parts[1])
                  IN  IF kind.raised THEN kind
                      ELSE ParseChangedFiles(changed_files, i + 1,
                               Append(file_changes,
                                      [status      |-> parts[1],
                                       filename    |-> parts[2],
                                       change_type |-> kind.value]))
             ELSE ParseChangedFiles(changed_files, i + 1, file_changes)

\* filename.split('.')[-1]
Extension(filename) ==
    LET parts == Split(filename, ".") IN parts[Len(parts)]

\* os.path.dirname (posixpath): the text before the last slash, its trailing
\* slashes removed unless it is slashes only
RECURSIVE RStripSlash(_)
RStripSlash(s) ==
    IF s # <<>> /\ s[Len(s)] = "/" THEN RStripSlash(SubSeq(s, 1, Len(s) - 1))
    ELSE s

dirname(p) ==
    LET slashes == {i \in DOMAIN p : p[i] = "/"}
        last    == IF slashes = {} THEN 0
                   ELSE CHOOSE i \in slashes : \A j \in slashes : j <= i
        head    == SubSeq(p, 1, last)
    IN  IF head # <<>> /\ Range(head) # {"/"} THEN RStripSlash(head) ELSE head

\* a tally that counts a copied file among the added ones
TallyCopiedAsAdded(summary, change_type) ==
    IF change_type \in {<<"a", "d", "d", "e", "d">>, <<"c", "o", "p", "i", "e", "d">>} THEN [summary EXCEPT !.added = @ + 1]
    ELSE IF change_type = <<"m", "o", "d", "i", "f", "i", "e", "d">> THEN [summary EXCEPT !.modified = @ + 1]
    ELSE IF change_type = <<"d", "e", "l", "e", "t", "e", "d">> THEN [summary EXCEPT !.deleted = @ + 1]
    ELSE IF change_type = <<"r", "e", "n", "a", "m", "e", "d">> THEN [summary EXCEPT !.renamed = @ + 1]
    ELSE summary

\* git_tools.py:135-136  if change_type in summary: summary[change_type] += 1
\* (file_types and directories, the other two keys of summary, are the name of
\* no change type: _get_change_type returns a value of status_map or unknown)
Tally(summary, change_type) ==
    IF change_type = <<"a", "d", "d", "e", "d">> THEN [summary EXCEPT !.added = @ + 1]
    ELSE IF change_type = <<"m", "o", "d", "i", "f", "i", "e", "d">> THEN [summary EXCEPT !.modified = @ + 1]
    ELSE IF change_type = <<"d", "e", "l", "e", "t", "e", "d">> THEN [summary EXCEPT !.deleted = @ + 1]
    ELSE IF change_type = <<"r", "e", "n", "a", "m", "e", "d">> THEN [summary EXCEPT !.renamed = @ + 1]
    ELSE summary

\* git_tools.py:141  file_types[ext] = file_types.get(ext, 0) + 1
CountExtension(file_types, ext) ==
    [e \in DOMAIN file_types \cup {ext} |->
        IF e # ext THEN file_types[e]
        ELSE IF ext \in DOMAIN file_types THEN file_types[ext] + 1
        ELSE 1]

RECURSIVE SummarizeLoop(_, _, _)
\* git_tools.py:130-146  the loop over the file changes
SummarizeLoop(file_changes, i, summary) ==
    IF i > Len(file_changes) THEN summary
    ELSE LET change_type == file_changes[i].change_type
             filename    == file_changes[i].filename
             directory   == dirname(filename)
             counted     == Tally(summary, change_type)
             typed       == IF "." \in Range(filename)
                            THEN [counted EXCEPT !.file_types =
                                      CountExtension(@, Extension(filename))]
                            ELSE counted
             placed      == IF directory # <<>>
                            THEN [typed EXCEPT !.directories = @ \cup {directory}]
                            ELSE typed
         IN  SummarizeLoop(file_changes, i + 1, placed)

\* git_tools.py:119-151  directories, a list made of a set, is kept as the set:
\* the order of the list is the order the set yields
_summarize_changes(file_changes) ==
    SummarizeLoop(file_changes, 1,
                  [added |-> 0, modified |-> 0, deleted |-> 0, renamed |-> 0,
                   file_types |-> <<>>, directories |-> {}])

\* git_tools.py:77-85  the report of the except branch
ErrorReport(target_branch, msg) ==
    [error               |-> msg,
     branch_comparison   |-> target_branch \o <<".", ".", ".", "H", "E", "A", "D">>,
     total_files_changed |-> 0,
     file_changes        |-> <<>>,
     diff_stats          |-> <<>>,
     diff_content        |-> <<>>,
     truncated           |-> FALSE]

\* git_tools.py:63  the characters kept back for the metadata
ReservedForMetadata == 2000

\* git_tools.py:48-74  the report once the three queries have returned
SuccessReport(target_branch, max_tokens, file_changes, stats, full_diff) ==
    LET truncated_diff ==
            _truncate_diff(full_diff, max_tokens - ReservedForMetadata)
    IN  [branch_comparison   |-> target_branch \o <<".", ".", ".", "H", "E", "A", "D">>,
         total_files_changed |-> Len(file_changes),
         file_changes        |-> file_changes,
         diff_stats          |-> stats,
         diff_content        |-> truncated_diff,
         truncated           |-> Len(full_diff) > Len(truncated_diff),
         original_diff_size  |-> Len(full_diff),
         change_summary      |-> _summarize_changes(file_changes)]

\* git_tools.py:27-85  git is the outcome of each of the three queries; a
\* query runs only when the ones before it returned
get_file_changes(target_branch, max_tokens, git) ==
    LET changed_files == _run_git_command(git.name_status)
        stats         == _run_git_command(git.stat)
        full_diff     == _run_git_command(git.diff)
    IN  IF changed_files.raised
        THEN ErrorReport(target_branch, changed_files.error)
        ELSE IF stats.raised THEN ErrorReport(target_branch, stats.error)
        ELSE IF full_diff.raised THEN ErrorReport(target_branch, full_diff.error)
        ELSE LET file_changes ==
                     ParseChangedFiles(Split(changed_files.value, "\n"), 1, <<>>)
             IN  IF file_changes.raised
                 THEN ErrorReport(target_branch, file_changes.error)
                 ELSE SuccessReport(target_branch, max_tokens,
                                    file_changes.value, stats.value,
                                    full_diff.value)

RECURSIVE ParseLog(_, _, _)
\* git_tools.py:163-173  the loop over the log lines
ParseLog(lines, i, commits) ==
    IF i > Len(lines) THEN commits
    ELSE LET parts == Split(lines[i], "|")
         IN  IF Strip(lines[i]) # <<>> /\ Len(parts) >= 4
             THEN ParseLog(lines, i + 1,
                           Append(commits, [hash    |-> parts[1],
                                            message |-> parts[2],
                                            author  |-> parts[3],
                                            date    |-> parts[4]]))
             ELSE ParseLog(lines, i + 1, commits)

\* git_tools.py:153-177
get_commit_messages(log) ==
    LET log_output == _run_git_command(log)
    IN  IF log_output.raised THEN <<[error |-> log_output.error]>>
        ELSE ParseLog(Split(log_output.value, "\n"), 1, <<>>)

\* [b.strip() for b in remote_branches if b.strip()]
StripNonBlank(lines) ==
    LET keep == SelectSeq(lines, LAMBDA b : Strip(b) # <<>>)
    IN  [i \in DOMAIN keep |-> Strip(keep[i])]

\* git_tools.py:179-196
get_branch_info(git) ==
    LET current_branch  == _run_git_command(git.branch)
        remote_branches == _run_git_command(git.remotes)
    IN  IF current_branch.raised \/ remote_branches.raised
        THEN [current_branch  |-> None,
              remote_branches |-> <<>>,
              is_git_repo     |-> FALSE,
              error |-> IF current_branch.raised THEN current_branch.error
                        ELSE remote_branches.error]
        ELSE [current_branch  |-> current_branch.value,
              remote_branches |-> StripNonBlank(Split(remote_branches.value, "\n")),
              is_git_repo     |-> TRUE]

-----------------------------------------------------------------------------
(* TemplateManager: templates.py.  The template directory is a function    *)
(* from file names to the text on disk, NoFile for a file that is absent.  *)

NoFile == [nofile |-> TRUE]

\* templates.py:10  the directory, as str() writes it before a file name
templates_dir == <<"t", "e", "m", "p", "l", "a", "t", "e", "s">>

\* templates.py:151  the file a template name is written to
TemplatePath(name) == name \o <<".", "m", "d">>

\* templates.py:62  glob("*.md"): the name ends in .md and holds no slash
IsTemplateFile(filename) ==
    /\ Len(filename) >= 3
    /\ SubSeq(filename, Len(filename) - 2, Len(filename)) = <<".", "m", "d">>
    /\ "/" \notin Range(filename)

\* templates.py:63  Path.stem: the name up to its last dot, unless that dot is
\* its first or its last character
Stem(filename) ==
    LET dots == {i \in DOMAIN filename : filename[i] = "."}
        last == IF dots = {} THEN 0 ELSE CHOOSE i \in dots : \A j \in dots : j <= i
    IN  IF 1 < last /\ last < Len(filename) THEN SubSeq(filename, 1, last - 1)
        ELSE filename

RECURSIVE UniversalNewlines(_)
\* templates.py:66-67  open(..., 'r') reads "\r\n" and "\r" as "\n"
UniversalNewlines(text) ==
    IF text = <<>> THEN <<>>
    ELSE IF Head(text) = "\r"
    THEN IF Len(text) >= 2 /\ text[2] = "\n"
         THEN <<"\n">> \o UniversalNewlines(Tail(Tail(text)))
         ELSE <<"\n">> \o UniversalNewlines(Tail(text))
    ELSE <<Head(text)>> \o UniversalNewlines(Tail(text))

\* os.linesep of the platform the server runs on
linesep == <<"\n">>

RECURSIVE WrittenText(_)
\* templates.py:152-153  open(..., 'w') writes "\n" as os.linesep
WrittenText(content) ==
    IF content = <<>> THEN <<>>
    ELSE (IF Head(content) = "\n" THEN linesep ELSE <<Head(content)>>)
             \o WrittenText(Tail(content))

\* templates.py:18-59  the metadata of the four conventional names
template_metadata ==
    [feature |-> [name |-> <<"F", "e", "a", "t", "u", "r", "e">>,
                  description |-> <<"F", "o", "r", " ", "n", "e", "w", " ", "f", "e", "a", "t", "u", "r", "e", "s", " ", "a", "n", "d", " ", "e", "n", "h", "a", "n", "c", "e", "m", "e", "n", "t", "s">>,
                  suitable_for |-> <<<<"N", "e", "w", " ", "f", "u", "n", "c", "t", "i", "o", "n", "a", "l", "i", "t", "y">>, <<"F", "e", "a", "t", "u", "r", "e", " ", "e", "n", "h", "a", "n", "c", "e", "m", "e", "n", "t", "s">>,
                                     <<"N", "e", "w", " ", "A", "P", "I", " ", "e", "n", "d", "p", "o", "i", "n", "t", "s">>, <<"U", "I", "/", "U", "X", " ", "i", "m", "p", "r", "o", "v", "e", "m", "e", "n", "t", "s">>>>],
     bugfix  |-> [name |-> <<"B", "u", "g", " ", "F", "i", "x">>,
                  description |-> <<"F", "o", "r", " ", "f", "i", "x", "i", "n", "g", " ", "b", "u", "g", "s", " ", "a", "n", "d", " ", "i", "s", "s", "u", "e", "s">>,
                  suitable_for |-> <<<<"B", "u", "g", " ", "f", "i", "x", "e", "s">>, <<"E", "r", "r", "o", "r", " ", "h", "a", "n", "d", "l", "i", "n", "g", " ", "i", "m", "p", "r", "o", "v", "e", "m", "e", "n", "t", "s">>,
                                     <<"P", "e", "r", "f", "o", "r", "m", "a", "n", "c", "e", " ", "f", "i", "x", "e", "s">>, <<"S", "e", "c", "u", "r", "i", "t", "y", " ", "f", "i", "x", "e", "s">>>>],
     hotfix  |-> [name |-> <<"H", "o", "t", "f", "i", "x">>,
                  description |-> <<"F", "o", "r", " ", "c", "r", "i", "t", "i", "c", "a", "l", " ", "p", "r", "o", "d", "u", "c", "t", "i", "o", "n", " ", "i", "s", "s", "u", "e", "s">>,
                  suitable_for |-> <<<<"C", "r", "i", "t", "i", "c", "a", "l", " ", "p", "r", "o", "d", "u", "c", "t", "i", "o", "n", " ", "b", "u", "g", "s">>,
                                     <<"S", "e", "c", "u", "r", "i", "t", "y", " ", "v", "u", "l", "n", "e", "r", "a", "b", "i", "l", "i", "t", "i", "e", "s">>, <<"S", "e", "r", "v", "i", "c", "e", " ", "o", "u", "t", "a", "g", "e", "s">>,
                                     <<"D", "a", "t", "a", " ", "c", "o", "r", "r", "u", "p", "t", "i", "o", "n", " ", "f", "i", "x", "e", "s">>>>],
     docs    |-> [name |-> <<"D", "o", "c", "u", "m", "e", "n", "t", "a", "t", "i", "o", "n">>,
                  description |-> <<"F", "o", "r", " ", "d", "o", "c", "u", "m", "e", "n", "t", "a", "t", "i", "o", "n", " ", "c", "h", "a", "n", "g", "e", "s">>,
                  suitable_for |-> <<<<"R", "E", "A", "D", "M", "E", " ", "u", "p", "d", "a", "t", "e", "s">>, <<"A", "P", "I", " ", "d", "o", "c", "u", "m", "e", "n", "t", "a", "t", "i", "o", "n">>,
                                     <<"C", "o", "d", "e", " ", "c", "o", "m", "m", "e", "n", "t", "s">>, <<"A", "r", "c", "h", "i", "t", "e", "c", "t", "u", "r", "e", " ", "d", "o", "c", "s">>>>]]

\* templates.py:72-76  template_metadata.get(template_name, <generated>)
MetadataOf(template_name) ==
    CASE template_name = <<"f", "e", "a", "t", "u", "r", "e">> -> template_metadata.feature
      [] template_name = <<"b", "u", "g", "f", "i", "x">>  -> template_metadata.bugfix
      [] template_name = <<"h", "o", "t", "f", "i", "x">>  -> template_metadata.hotfix
      [] template_name = <<"d", "o", "c", "s">>    -> template_metadata.docs
      [] OTHER -> [name |-> Title(template_name),
                   description |-> <<"T", "e", "m", "p", "l", "a", "t", "e", " ", "f", "o", "r", " ">> \o template_name,
                   suitable_for |-> <<>>]

\* templates.py:65-82  the entry of one file; the read fails for the files the
\* environment names unreadable
TemplateEntry(dir, filename, unreadable) ==
    IF filename \in unreadable
    THEN [error     |-> <<"C", "o", "u", "l", "d", " ", "n", "o", "t", " ", "l", "o", "a", "d", " ", "t", "e", "m", "p", "l", "a", "t", "e", ":", " ", "[", "E", "r", "r", "n", "o", " ", "1", "3", "]", " ", "P", "e", "r", "m", "i", "s", "s", "i", "o", "n", " ", "d", "e", "n", "i", "e", "d">>,
          file_path |-> templates_dir \o <<"/">> \o filename]
    ELSE [content   |-> UniversalNewlines(dir[filename]),
          file_path |-> templates_dir \o <<"/">> \o filename,
          metadata  |-> MetadataOf(Stem(filename))]

\* the files of the directory that glob("*.md") yields
TemplateFiles(dir) ==
    {f \in DOMAIN dir : dir[f] # NoFile /\ IsTemplateFile(f)}

\* templates.py:13-84  the listing, a dict from template name to entry
get_all_templates(dir, unreadable) ==
    LET found == TemplateFiles(dir)
        FileOf(template_name) == CHOOSE f \in found : Stem(f) = template_name
    IN  [template_name \in {Stem(f) : f \in found} |->
            TemplateEntry(dir, FileOf(template_name), unreadable)]

\* templates.py:86-89  templates.get(template_name): None when absent
get_template(dir, unreadable, template_name) ==
    LET templates == get_all_templates(dir, unreadable)
    IN  IF template_name \in DOMAIN templates THEN templates[template_name]
        ELSE None

\* templates.py:159-161  the names; their order in the list is the order the
\* directory yields its files in, which the code does not choose
list_available_templates(dir, unreadable) ==
    DOMAIN get_all_templates(dir, unreadable)

\* templates.py:148-157  the directory after the call: open() fails and leaves
\* it as it is, or open() empties the file and write() fails, or both succeed
DirectoryAfterCreate(dir, name, content, outcome) ==
    CASE outcome = "open_fails"  -> dir
      [] outcome = "write_fails" -> [dir EXCEPT ![TemplatePath(name)] = <<>>]
      [] OTHER -> [dir EXCEPT ![TemplatePath(name)] = WrittenText(content)]

\* templates.py:154-157  the flag create_custom_template returns
create_custom_template(outcome) == outcome = "ok"

\* change_analysis.get(key, default)
Get(dict, key, default) == IF key \in DOMAIN dict THEN dict[key] ELSE default

\* templates.py:115-122  the bucket of one file name, the first rule that matches
DocMarkers    == {<<".", "m", "d">>, <<".", "t", "x", "t">>, <<".", "r", "s", "t">>, <<"r", "e", "a", "d", "m", "e">>, <<"d", "o", "c", "s", "/">>}
TestMarkers   == {<<"t", "e", "s", "t", "_">>, <<"_", "t", "e", "s", "t">>, <<"s", "p", "e", "c", "_">>, <<"_", "s", "p", "e", "c">>, <<"t", "e", "s", "t", "s", "/">>}
ConfigMarkers == {<<".", "j", "s", "o", "n">>, <<".", "y", "a", "m", "l">>, <<".", "y", "m", "l">>, <<".", "t", "o", "m", "l">>, <<".", "i", "n", "i">>, <<"c", "o", "n", "f", "i", "g">>}

ContainsAny(text, words) == \E w \in words : Contains(text, w)

\* BucketOf with the test rule tried before the documentation rule
BucketOfTestFirst(filename) ==
    LET name == Lower(filename)
    IN  IF ContainsAny(name, TestMarkers) THEN "test"
        ELSE IF ContainsAny(name, DocMarkers) THEN "doc"
        ELSE IF ContainsAny(name, ConfigMarkers) THEN "config"
        ELSE "code"

BucketOf(filename) ==
    LET name == Lower(filename)
    IN  IF ContainsAny(name, DocMarkers) THEN "doc"
        ELSE IF ContainsAny(name, TestMarkers) THEN "test"
        ELSE IF ContainsAny(name, ConfigMarkers) THEN "config"
        ELSE "code"

\* templates.py:132  str() of one file change
StrFileChange(change) ==
    <<"{", "'", "s", "t", "a", "t", "u", "s", "'", ":", " ">> \o Repr(change.status)
        \o <<",", " ", "'", "f", "i", "l", "e", "n", "a", "m", "e", "'", ":", " ">> \o Repr(change.filename)
        \o <<",", " ", "'", "c", "h", "a", "n", "g", "e", "_", "t", "y", "p", "e", "'", ":", " ">> \o Repr(change.change_type) \o <<"}">>

\* templates.py:132  str(change_analysis), the keys in the order they were set
StrReport(change_analysis) ==
    LET keys  == DOMAIN change_analysis
        error == IF "error" \in keys
                 THEN <<<<"'", "e", "r", "r", "o", "r", "'", ":", " ">> \o Repr(change_analysis.error)>> ELSE <<>>
        listed == IF "file_changes" \in keys
                 THEN <<<<"'", "f", "i", "l", "e", "_", "c", "h", "a", "n", "g", "e", "s", "'", ":", " ", "[">>
                          \o Join([i \in DOMAIN change_analysis.file_changes |->
                                     StrFileChange(change_analysis.file_changes[i])],
                                  <<",", " ">>)
                          \o <<"]">>>>
                 ELSE <<>>
        diff  == IF "diff_content" \in keys
                 THEN <<<<"'", "d", "i", "f", "f", "_", "c", "o", "n", "t", "e", "n", "t", "'", ":", " ">> \o Repr(change_analysis.diff_content)>>
                 ELSE <<>>
    IN  <<"{">> \o Join(error \o listed \o diff, <<",", " ">>) \o <<"}">>

BugWords    == {<<"f", "i", "x">>, <<"b", "u", "g">>, <<"e", "r", "r", "o", "r">>, <<"i", "s", "s", "u", "e">>}
UrgentWords == {<<"c", "r", "i", "t", "i", "c", "a", "l">>, <<"u", "r", "g", "e", "n", "t">>, <<"h", "o", "t", "f", "i", "x">>, <<"p", "r", "o", "d", "u", "c", "t", "i", "o", "n">>}

\* templates.py:91-146
get_template_suggestions(change_analysis) ==
    LET file_changes == Get(change_analysis, "file_changes", <<>>)
        Count(bucket) ==
            Cardinality({i \in DOMAIN file_changes :
                BucketOf(Get(file_changes[i], "filename", <<>>)) = bucket})
        doc_files   == Count("doc")
        code_files  == Count("code")
        total_files == Len(file_changes)
        rendering   == Lower(StrReport(change_analysis))
        pick ==
            IF total_files = 0 THEN <<<<<<"f", "e", "a", "t", "u", "r", "e">>>>, <<>>>>
            ELSE IF doc_files > code_files THEN <<<<<<"d", "o", "c", "s">>>>, <<<<"f", "e", "a", "t", "u", "r", "e">>>>>>
            ELSE IF ContainsAny(rendering, BugWords)
            THEN <<<<<<"b", "u", "g", "f", "i", "x">>>>, <<<<"f", "e", "a", "t", "u", "r", "e">>>>>>
            ELSE IF ContainsAny(rendering, UrgentWords)
            THEN <<<<<<"h", "o", "t", "f", "i", "x">>>>, <<<<"b", "u", "g", "f", "i", "x">>>>>>
            ELSE <<<<<<"f", "e", "a", "t", "u", "r", "e">>>>, <<<<"d", "o", "c", "s">>, <<"b", "u", "g", "f", "i", "x">>>>>>
    IN  [primary_suggestions   |-> pick[1],
         secondary_suggestions |-> pick[2],
         analysis_data         |-> change_analysis,
         confidence            |-> <<"l", "o", "w">>,
         reasoning             |->
             <<"B", "a", "s", "i", "c", " ", "h", "e", "u", "r", "i", "s", "t", "i", "c", " ", "a", "n", "a", "l", "y", "s", "i", "s", " ", "-", " ", "C", "l", "a", "u", "d", "e", " ", "w", "i", "l", "l", " ", "p", "r", "o", "v", "i", "d", "e", " ", "b", "e", "t", "t", "e", "r", " ", "s", "u", "g", "g", "e", "s", "t", "i", "o", "n", "s">>]

\* server.py:227  the lengths a description must lie strictly between
MinLength == 10
MaxLength == 5000

\* server.py:226-228 with the upper limit of line 227 as <=
BasicChecksInclusive(description) ==
    [has_description    |-> Len(Strip(description)) > 0,
     reasonable_length  |-> MinLength < Len(description)
                                /\ Len(description) <= MaxLength,
     contains_checklist |-> Contains(description, <<"-", " ", "[", " ", "]">>)
                                \/ Contains(description, <<"-", " ", "[", "x", "]">>)]

\* server.py:225-229
BasicChecks(description) ==
    [has_description    |-> Len(Strip(description)) > 0,
     reasonable_length  |-> MinLength < Len(description)
                                /\ Len(description) < MaxLength,
     contains_checklist |-> Contains(description, <<"-", " ", "[", " ", "]">>)
                                \/ Contains(description, <<"-", " ", "[", "x", "]">>)]

\* server.py:195-244  the except branch of line 239 is not modelled: with a
\* str description nothing in the try block raises
validate_pr_description(dir, unreadable, description, template_name, change_analysis) ==
    LET template == get_template(dir, unreadable, template_name)
    IN  IF template = None
        THEN [valid |-> FALSE,
              error |-> <<"T", "e", "m", "p", "l", "a", "t", "e", " ", "'">> \o template_name \o <<"'", " ", "n", "o", "t", " ", "f", "o", "u", "n", "d">>,
              available_templates |-> list_available_templates(dir, unreadable)]
        ELSE [template_used      |-> template_name,
              description_length |-> Len(description),
              template_content   |-> Get(template, "content", <<>>),
              change_analysis    |-> IF change_analysis = None THEN <<>>
                                     ELSE change_analysis,
              basic_checks       |-> BasicChecks(description),
              validation_note    |->
                  <<"T", "h", "i", "s", " ", "p", "r", "o", "v", "i", "d", "e", "s", " ", "b", "a", "s", "i", "c", " ", "v", "a", "l", "i", "d", "a", "t", "i", "o", "n", " ", "d", "a", "t", "a", ".", " ", "U", "s", "e", " ", "C", "l", "a", "u", "d", "e", "'", "s", " ", "a", "n", "a", "l", "y", "s", "i", "s", " ">>
                  \o <<"t", "o", " ", "d", "e", "t", "e", "r", "m", "i", "n", "e", " ", "i", "f", " ", "t", "h", "e", " ", "d", "e", "s", "c", "r", "i", "p", "t", "i", "o", "n", " ", "a", "d", "e", "q", "u", "a", "t", "e", "l", "y", " ", "c", "o", "v", "e", "r", "s", " ", "t", "h", "e", " ", "c", "h", "a", "n", "g", "e", "s", " ">>
                  \o <<"a", "n", "d", " ", "f", "o", "l", "l", "o", "w", "s", " ", "t", "h", "e", " ", "t", "e", "m", "p", "l", "a", "t", "e", " ", "s", "t", "r", "u", "c", "t", "u", "r", "e", ".">>]

\* server.py:77-111  the except branch of line 105 is not modelled: the listing
\* catches the failure of every read
get_pr_templates(dir, unreadable) ==
    LET templates == get_all_templates(dir, unreadable)
    IN  [templates           |-> templates,
         available_templates |-> DOMAIN templates,
         total_templates     |-> Cardinality(DOMAIN templates),
         template_directory  |-> templates_dir,
         usage_note          |->
             <<"E", "a", "c", "h", " ", "t", "e", "m", "p", "l", "a", "t", "e", " ", "i", "n", "c", "l", "u", "d", "e", "s", " ", "m", "e", "t", "a", "d", "a", "t", "a", " ", "a", "b", "o", "u", "t", " ", "w", "h", "e", "n", " ", "i", "t", "'", "s", " ", "m", "o", "s", "t", " ", "s", "u", "i", "t", "a", "b", "l", "e", " ", "t", "o", " ", "u", "s", "e", ".">>]

\* the working directory of the server process
Cwd == <<"/", "s", "r", "v", "/", "a", "p", "p">>

\* the NUL character, which no path may hold
NUL == "NUL"

RECURSIVE Normalize(_, _, _)
\* the components of a path with "", "." and ".." resolved (no symlinks)
Normalize(parts, i, acc) ==
    IF i > Len(parts) THEN acc
    ELSE IF parts[i] = <<>> \/ parts[i] = <<".">> THEN Normalize(parts, i + 1, acc)
    ELSE IF parts[i] = <<".", ".">>
    THEN Normalize(parts, i + 1,
                   IF acc = <<>> THEN acc ELSE SubSeq(acc, 1, Len(acc) - 1))
    ELSE Normalize(parts, i + 1, Append(acc, parts[i]))

\* git_tools.py:10-11  GitAnalyzer(repo_path): Path(repo_path).resolve()
GitAnalyzer(repo_path) ==
    IF NUL \in Range(repo_path) THEN Raised(<<"e", "m", "b", "e", "d", "d", "e", "d", " ", "n", "u", "l", "l", " ", "b", "y", "t", "e">>)
    ELSE LET absolute == IF repo_path # <<>> /\ repo_path[1] = "/" THEN repo_path
                         ELSE Cwd \o <<"/">> \o repo_path
         IN  Returned(<<"/">> \o Join(Normalize(Split(absolute, "/"), 1, <<>>), <<"/">>))

-----------------------------------------------------------------------------
(* The Tool Facade: server.py                                              *)

\* server.py:65-74  the payload of the except branch
AnalyzeFailed(target_branch, repo_path, msg) ==
    [error               |-> <<"F", "a", "i", "l", "e", "d", " ", "t", "o", " ", "a", "n", "a", "l", "y", "z", "e", " ", "f", "i", "l", "e", " ", "c", "h", "a", "n", "g", "e", "s", ":", " ">> \o msg,
     target_branch       |-> target_branch,
     repo_path           |-> repo_path,
     total_files_changed |-> 0,
     file_changes        |-> <<>>,
     diff_stats          |-> <<>>,
     diff_content        |-> <<>>,
     truncated           |-> FALSE]

\* server.py:42-44  the analyzer the call goes on with
AnalyzerFor(repo_path, current) ==
    IF repo_path # <<".">> THEN GitAnalyzer(repo_path) ELSE Returned(current)

\* server.py:54-60
CombineAnalysis(report, branch_info, commit_messages) ==
    [branch_info        |-> branch_info,
     recent_commits     |-> commit_messages,
     analysis_timestamp |-> <<"2", "0", "2", "5", "-", "0", "6", "-", "1", "4">>,
     tool_version       |-> <<"1", ".", "0", ".", "0">>] @@ report

-----------------------------------------------------------------------------
(* The inputs the calls are made with, and what git answers.               *)

MaxDiffLen     == 5    \* characters of a diff text given to _truncate_diff
MaxBudget      == 6    \* the largest character budget
MaxStatusLines == 2    \* lines of a name-status listing
MaxStatusLen   == 2    \* characters of a status token given to _get_change_type

DiffTexts == SeqsUpTo({"a", "\n"}, MaxDiffLen)

Budgets == (-1)..MaxBudget

MaxTokens == {ReservedForMetadata + b : b \in Budgets}

StatusTokens == SeqsUpTo({"A", "M", "D", "R", "C", "T", "X", "1"}, MaxStatusLen)

StatusLines ==
    {<<"M", "\t", "a", ".", "p", "y">>, <<"A", "\t", "d", "o", "c", "s", "/", "x", ".", "m", "d">>, <<"R", "1", "0", "0", "\t", "o", "l", "d", ".", "p", "y", "\t", "s", "r", "c", "/", "n", "e", "w", ".", "p", "y">>,
     <<"\t", "b", ".", "p", "y">>, <<"X", "\t", "z">>, <<" ", " ">>}

NameStatusStdouts ==
    {Join(ls, <<"\n">>) : ls \in SeqsUpTo(StatusLines, MaxStatusLines)}

DiffStdouts ==
    {<<>>, <<"a">>, <<"a", "b", "\n", "c", "d">>, <<"\n", " ", "a", "b", "\n", "c", "d", "e", "f", "\n", "\n", "g", " ", "\n">>, <<"a", "b", "c", "d", "e", "f">>, <<"a", "b", "c", "d", "e", "f", "g">>}

Branches == {<<"m", "a", "i", "n">>}

RepoPaths == {<<".">>, <<"/", "r", "e", "p", "o", "/", "a">>, <<"/", "r", "e", "p", "o", "/", "a", "/", ".">>, <<"o", "t", "h", "e", "r">>, <<"b", NUL>>}

Ok(out) == [kind |-> "ok", out |-> out]

Failures ==
    {[kind |-> "CalledProcessError", out |-> <<>>],
     [kind |-> "CalledProcessError", out |-> <<"f", "a", "t", "a", "l", ":", " ", "b", "a", "d", " ", "r", "e", "v", "i", "s", "i", "o", "n">>],
     [kind |-> "OSError", out |-> <<"[", "E", "r", "r", "n", "o", " ", "2", "]", " ", "N", "o", " ", "s", "u", "c", "h", " ", "f", "i", "l", "e", " ", "o", "r", " ", "d", "i", "r", "e", "c", "t", "o", "r", "y", ":", " ", "'", "g", "i", "t", "'">>]}

Queries == {"name_status", "stat", "diff"}

AllOk(ns, diff) ==
    [name_status |-> Ok(ns), stat |-> Ok(<<" ", "1", " ", "f", "i", "l", "e", " ", "c", "h", "a", "n", "g", "e", "d", "\n">>), diff |-> Ok(diff)]

\* one of the three queries fails
OneFails ==
    {[AllOk(<<"M", "\t", "a", ".", "p", "y">>, <<"a", "b", "\n", "c", "d">>) EXCEPT ![q] = f] : q \in Queries, f \in Failures}

GitAnswers ==
    {AllOk(ns, diff) : ns \in NameStatusStdouts, diff \in DiffStdouts} \cup OneFails

InfoAnswers ==
    {[branch  |-> Ok(<<"f", "e", "a", "t", "u", "r", "e", "-", "x", "\n">>),
      remotes |-> Ok(<<" ", " ", "o", "r", "i", "g", "i", "n", "/", "m", "a", "i", "n", "\n", "\n", " ", " ", "o", "r", "i", "g", "i", "n", "/", "d", "e", "v", "\n">>),
      log     |-> Ok(<<"1", "f", "3", "|", "f", "i", "x", " ", "c", "r", "a", "s", "h", "|", "a", "n", "n", "|", "2", "0", "2", "5", "-", "0", "6", "-", "0", "1", "\n", "n", "o", "t", " ", "a", " ", "r", "e", "c", "o", "r", "d", "\n">>)],
     [branch  |-> [kind |-> "CalledProcessError", out |-> <<"f", "a", "t", "a", "l", ":", " ", "n", "o", "t", " ", "a", " ", "g", "i", "t", " ", "r", "e", "p", "o", "s", "i", "t", "o", "r", "y">>],
      remotes |-> Ok(<<>>),
      log     |-> Ok(<<>>)],
     [branch  |-> Ok(<<"f", "e", "a", "t", "u", "r", "e", "-", "x", "\n">>),
      remotes |-> Ok(<<>>),
      log     |-> [kind |-> "CalledProcessError", out |-> <<"f", "a", "t", "a", "l", ":", " ", "b", "a", "d", " ", "r", "e", "v", "i", "s", "i", "o", "n">>]]}

\* what git answers to the queries of a tool call
ToolGitAnswers ==
    {AllOk(<<>>, <<>>),
     AllOk(<<"M", "\t", "a", ".", "p", "y", "\n", "A", "\t", "d", "o", "c", "s", "/", "x", ".", "m", "d">>, <<"a", "b", "\n", "c", "d">>),
     AllOk(<<"M", "\t", "a", ".", "p", "y", "\n", "\t", "b", ".", "p", "y">>, <<"a", "b", "\n", "c", "d">>),
     [AllOk(<<>>, <<>>) EXCEPT !.name_status =
         [kind |-> "CalledProcessError", out |-> <<"f", "a", "t", "a", "l", ":", " ", "b", "a", "d", " ", "r", "e", "v", "i", "s", "i", "o", "n">>]],
     [AllOk(<<>>, <<>>) EXCEPT !.stat = [kind |-> "CalledProcessError", out |-> <<>>]],
     [AllOk(<<>>, <<>>) EXCEPT !.diff =
         [kind |-> "OSError", out |-> <<"[", "E", "r", "r", "n", "o", " ", "2", "]", " ", "N", "o", " ", "s", "u", "c", "h", " ", "f", "i", "l", "e", " ", "o", "r", " ", "d", "i", "r", "e", "c", "t", "o", "r", "y", ":", " ", "'", "g", "i", "t", "'">>]]}

ToolMaxTokens == {ReservedForMetadata + 3, ReservedForMetadata + MaxBudget}

\* the names templates are created under, and what is written to them
TemplateNames == {<<"f", "e", "a", "t", "u", "r", "e">>, <<"n", "o", "t", "e", "s">>}

TemplateContents == {<<"#", "#", " ", "S", "u", "m", "m", "a", "r", "y", "\n", "-", " ", "[", " ", "]", " ", "t", "e", "s", "t", "e", "d">>, <<"l", "i", "n", "e", " ", "o", "n", "e", "\r", "\n", "l", "i", "n", "e", " ", "t", "w", "o">>}

\* the files the directory can come to hold
FileNames == {TemplatePath(n) : n \in TemplateNames}

EmptyDirectory == [f \in FileNames |-> NoFile]

NeverCreated == [n \in TemplateNames |-> None]

MaxFiles == 2    \* file changes of a report given to get_template_suggestions

ChangedFilenames ==
    {<<"a", ".", "m", "d">>, <<"d", "o", "c", "s", "/", "t", "e", "s", "t", "_", "c", "o", "n", "f", "i", "g", ".", "p", "y">>, <<"t", "e", "s", "t", "_", "c", "o", "n", "f", "i", "g", ".", "p", "y">>, <<"a", "p", "p", ".", "j", "s", "o", "n">>,
     <<"m", "a", "i", "n", ".", "p", "y">>, <<"B", "u", "g", "s", ".", "P", "Y">>, <<"u", "r", "g", "e", "n", "t", ".", "p", "y">>}

ChangedFiles ==
    {[status |-> <<"M">>, filename |-> f, change_type |-> <<"m", "o", "d", "i", "f", "i", "e", "d">>] :
        f \in ChangedFilenames}

\* the reports given to get_template_suggestions
SuggestionInputs ==
    {<<>>}
    \cup {[file_changes |-> fc, diff_content |-> d] :
            fc \in SeqsUpTo(ChangedFiles, MaxFiles),
            d \in {<<>>, <<"i", "t", "'", "s", "\n", "C", "r", "i", "t", "i", "c", "a", "l">>}}
    \cup {[error |-> <<"G", "i", "t", " ", "c", "o", "m", "m", "a", "n", "d", " ", "f", "a", "i", "l", "e", "d", ":", " ">>, file_changes |-> fc,
           diff_content |-> <<>>] : fc \in SeqsUpTo(ChangedFiles, MaxFiles)}

MaxChanges == 2    \* file changes given to _summarize_changes

\* the entries get_file_changes builds: a status token, a filename, and the
\* change type _get_change_type gives the token
FileChangeEntries ==
    {[status |-> s, filename |-> f, change_type |-> _get_change_type(s).value] :
        s \in {<<"A">>, <<"M">>, <<"D">>, <<"R", "1", "0", "0">>, <<"C">>, <<"T">>, <<"X">>},
        f \in {<<"M", "a", "k", "e", "f", "i", "l", "e">>, <<"a", ".", "p", "y">>, <<"s", "r", "c", "/", "b", ".", "p", "y">>, <<"s", "r", "c", "/", "l", "i", "b", "/", "c", ".", "t", "a", "r", ".", "g", "z">>,
               <<"v", "1", ".", "2", "/", "n", "o", "t", "e", "s">>}}

SummaryInputs == SeqsUpTo(FileChangeEntries, MaxChanges)

\* the calls of the methods that keep no state, each on inputs of its own
MethodCalls ==
    {[fn |-> "_truncate_diff", diff |-> d, max_chars |-> b] :
        d \in DiffTexts, b \in Budgets}
    \cup {[fn |-> "_get_change_type", status |-> s] : s \in StatusTokens}
    \cup {[fn |-> "get_file_changes", target_branch |-> t, max_tokens |-> m,
           git |-> g] : t \in {<<"m", "a", "i", "n">>}, m \in MaxTokens, g \in GitAnswers}
    \cup {[fn |-> "get_template_suggestions", change_analysis |-> r] :
            r \in SuggestionInputs}
    \cup {[fn |-> "_summarize_changes", file_changes |-> fc] :
            fc \in SummaryInputs}

Rep(c, n) == [i \in 1..n |-> c]

\* the descriptions given to validate_pr_description: short ones, and ones at
\* the upper limit of the length
ShortDescriptions ==
    {<<>>, <<" ", "\n", "\t", " ">>, Rep(" ", MinLength + 1), Rep("a", MinLength),
     Rep("a", MinLength + 1), <<"-", " ", "[", " ", "]", " ", "a", "d", "d", " ", "t", "e", "s", "t", "s">>, <<"-", " ", "[", "x", "]", " ", "a", "d", "d", " ", "t", "e", "s", "t", "s">>,
     <<"-", " ", "[", "X", "]", " ", "a", "d", "d", " ", "t", "e", "s", "t", "s">>}

LongDescriptions == {Rep("a", MaxLength - 1), Rep("a", MaxLength)}

\* the calls of validate_pr_description; unreadable is the environment's: the
\* files whose read fails
ValidationCalls ==
    {[description |-> d, template_name |-> n, change_analysis |-> None,
      unreadable |-> {}] :
        d \in ShortDescriptions, n \in TemplateNames \cup {<<"n", "o", "n", "e", "x", "i", "s", "t", "e", "n", "t">>}}
    \cup {[description |-> d, template_name |-> <<"f", "e", "a", "t", "u", "r", "e">>,
           change_analysis |-> None, unreadable |-> {}] : d \in LongDescriptions}
    \cup {[description |-> d, template_name |-> <<"f", "e", "a", "t", "u", "r", "e">>,
           change_analysis |-> [total_files_changed |-> 1],
           unreadable |-> {TemplatePath(<<"f", "e", "a", "t", "u", "r", "e">>)}] :
        d \in {<<>>, <<"-", " ", "[", "x", "]", " ", "a", "d", "d", " ", "t", "e", "s", "t", "s">>}}

CreateOutcomes == {"ok", "open_fails", "write_fails"}

-----------------------------------------------------------------------------
(* The state machine.                                                      *)

\* server.py:16-17  the module's globals when it has been imported
Init ==
    /\ git_analyzer = GitAnalyzer(<<".">>).value
    /\ files = EmptyDirectory
    /\ op = "init"
    /\ args = <<>>
    /\ ret = None
    /\ changes = None
    /\ ran_in = None
    /\ last_ok = NeverCreated

\* a GitAnalyzer and one call to make on it
MethodInit ==
    /\ git_analyzer = GitAnalyzer(<<".">>).value
    /\ files = EmptyDirectory
    /\ op = "call"
    /\ args \in MethodCalls
    /\ ret = None
    /\ changes = None
    /\ ran_in = None
    /\ last_ok = NeverCreated

\* the call of GitAnalyzer._truncate_diff
TruncateDiff ==
    /\ op = "call" /\ args.fn = "_truncate_diff"
    /\ op' = "_truncate_diff"
    /\ ret' = _truncate_diff(args.diff, args.max_chars)
    /\ UNCHANGED <<git_analyzer, files, args, changes, ran_in, last_ok>>

\* the call of GitAnalyzer._get_change_type
GetChangeType ==
    /\ op = "call" /\ args.fn = "_get_change_type"
    /\ op' = "_get_change_type"
    /\ ret' = _get_change_type(args.status)
    /\ UNCHANGED <<git_analyzer, files, args, changes, ran_in, last_ok>>

\* the call of GitAnalyzer.get_file_changes
GetFileChanges ==
    /\ op = "call" /\ args.fn = "get_file_changes"
    /\ op' = "get_file_changes"
    /\ ret' = get_file_changes(args.target_branch, args.max_tokens, args.git)
    /\ changes' = ret'
    /\ ran_in' = git_analyzer
    /\ UNCHANGED <<git_analyzer, files, args, last_ok>>

\* the call of TemplateManager.get_template_suggestions
GetTemplateSuggestions ==
    /\ op = "call" /\ args.fn = "get_template_suggestions"
    /\ op' = "get_template_suggestions"
    /\ ret' = get_template_suggestions(args.change_analysis)
    /\ UNCHANGED <<git_analyzer, files, args, changes, ran_in, last_ok>>

\* the call of GitAnalyzer._summarize_changes
SummarizeChanges ==
    /\ op = "call" /\ args.fn = "_summarize_changes"
    /\ op' = "_summarize_changes"
    /\ ret' = _summarize_changes(args.file_changes)
    /\ UNCHANGED <<git_analyzer, files, args, changes, ran_in, last_ok>>

MethodNext ==
    \/ TruncateDiff \/ GetChangeType \/ GetFileChanges \/ GetTemplateSuggestions
    \/ SummarizeChanges

MethodSpec == MethodInit /\ [][MethodNext]_vars

\* server.py:20-74  the tool analyze_file_changes
AnalyzeFileChanges(target_branch, repo_path, max_tokens, git, info) ==
    LET analyzer == AnalyzerFor(repo_path, git_analyzer)
    IN  /\ op' = "analyze_file_changes"
        /\ args' = [target_branch |-> target_branch, repo_path |-> repo_path,
                    max_tokens |-> max_tokens, git |-> git, info |-> info]
        /\ IF analyzer.raised
           THEN /\ ret' = AnalyzeFailed(target_branch, repo_path, analyzer.error)
                /\ changes' = None
                /\ ran_in' = None
                /\ UNCHANGED git_analyzer
           ELSE /\ git_analyzer' = analyzer.value
                /\ changes' = get_file_changes(target_branch, max_tokens, git)
                /\ ran_in' = analyzer.value
                /\ ret' = CombineAnalysis(changes', get_branch_info(info),
                                          get_commit_messages(info.log))
        /\ UNCHANGED <<files, last_ok>>

\* server.py:178-192  the tool get_git_status
GetGitStatus(info) ==
    /\ op' = "get_git_status"
    /\ args' = [info |-> info]
    /\ ret' = [status |-> <<"s", "u", "c", "c", "e", "s", "s">>] @@ get_branch_info(info)
    /\ changes' = None
    /\ ran_in' = git_analyzer
    /\ UNCHANGED <<git_analyzer, files, last_ok>>

Next ==
    \/ \E t \in Branches, p \in RepoPaths, m \in ToolMaxTokens,
          git \in ToolGitAnswers, info \in InfoAnswers :
           AnalyzeFileChanges(t, p, m, git, info)
    \/ \E info \in InfoAnswers : GetGitStatus(info)

Spec == Init /\ [][Next]_vars

\* templates.py:148-157  a call of template_manager.create_custom_template
CreateCustomTemplate(name, content, outcome) ==
    /\ op' = "create_custom_template"
    /\ args' = [name |-> name, content |-> content, outcome |-> outcome]
    /\ files' = DirectoryAfterCreate(files, name, content, outcome)
    /\ ret' = create_custom_template(outcome)
    /\ last_ok' = IF ret' THEN [last_ok EXCEPT ![name] = content] ELSE last_ok
    /\ UNCHANGED <<git_analyzer, changes, ran_in>>

\* server.py:77-111  the tool get_pr_templates
GetPrTemplates(unreadable) ==
    /\ op' = "get_pr_templates"
    /\ args' = [unreadable |-> unreadable]
    /\ ret' = get_pr_templates(files, unreadable)
    /\ UNCHANGED <<git_analyzer, files, changes, ran_in, last_ok>>

\* server.py:195-244  the tool validate_pr_description
ValidatePrDescription(call) ==
    /\ op' = "validate_pr_description"
    /\ args' = call
    /\ ret' = validate_pr_description(files, call.unreadable, call.description,
                                      call.template_name, call.change_analysis)
    /\ UNCHANGED <<git_analyzer, files, changes, ran_in, last_ok>>

TemplateNext ==
    \/ \E n \in TemplateNames, c \in TemplateContents, o \in CreateOutcomes :
           CreateCustomTemplate(n, c, o)
    \/ \E u \in {{}, {TemplatePath(<<"f", "e", "a", "t", "u", "r", "e">>)}} : GetPrTemplates(u)
    \/ \E call \in ValidationCalls : ValidatePrDescription(call)

TemplateSpec == Init /\ [][TemplateNext]_vars

-----------------------------------------------------------------------------
(* The claims about the Change Extractor.                                  *)

IsError(report) == "error" \in DOMAIN report

\* the character budget of a get_file_changes call
BudgetOf(max_tokens) == max_tokens - 2000

\* C1: a diff longer than the budget comes back from _truncate_diff, marker
\* included, no longer than the budget; so the diff_content of a report whose
\* full diff exceeds max_tokens - 2000 is no longer than max_tokens - 2000.
C1_TruncatedFitsBudget ==
    /\ (op = "_truncate_diff" /\ Len(args.diff) > args.max_chars)
           => Len(ret) <= args.max_chars
    /\ (op = "get_file_changes" /\ ~IsError(ret)
            /\ ret.original_diff_size > BudgetOf(args.max_tokens))
           => Len(ret.diff_content) <= BudgetOf(args.max_tokens)

\* C4: a diff no longer than the budget comes back from _truncate_diff
\* unchanged, and a report whose full diff is no longer than max_tokens - 2000
\* says truncated = false.
C4_WithinBudgetUnchanged ==
    /\ (op = "_truncate_diff" /\ Len(args.diff) <= args.max_chars)
           => ret = args.diff
    /\ (op = "get_file_changes" /\ ~IsError(ret)
            /\ ret.original_diff_size <= BudgetOf(args.max_tokens))
           => /\ ret.truncated = FALSE
              /\ Len(ret.diff_content) = ret.original_diff_size

\* C4's case: a non-empty diff exactly as long as the budget has come back.
C4_Witness ==
    /\ op = "_truncate_diff"
    /\ Len(args.diff) = args.max_chars
    /\ "\n" \in Range(args.diff)
    /\ ret = args.diff

RECURSIVE SizeOfLines(_, _)
\* the sizes of the first k lines, each counted as its length + 1
SizeOfLines(lines, k) ==
    IF k = 0 THEN 0 ELSE SizeOfLines(lines, k - 1) + Len(lines[k]) + 1

\* the prefixes of lines whose sizes sum to at most budget, by their length
FittingPrefixes(lines, budget) ==
    {k \in 0..Len(lines) : SizeOfLines(lines, k) <= budget}

Longest(ks) == CHOOSE k \in ks : \A j \in ks : j <= k

\* the marker line stating that n lines were left out
MarkerStating(n) == <<"\n", ".", ".", ".", " ", "[", "D", "I", "F", "F", " ", "T", "R", "U", "N", "C", "A", "T", "E", "D", " ", "-", " ">> \o Digits(n) \o <<" ", "m", "o", "r", "e", " ", "l", "i", "n", "e", "s", "]", " ", ".", ".", ".">>

\* the text made of the first k lines and then the marker for the rest
PrefixThenMarker(lines, k) ==
    Join(SubSeq(lines, 1, k) \o <<MarkerStating(Len(lines) - k)>>, <<"\n">>)

\* C5, as stated: the output for a diff longer than the budget is the longest
\* prefix of its lines whose sizes sum to at most the budget, then one marker
\* line stating the number of lines left out.
C5_LongestFittingPrefixThenMarker ==
    (op = "_truncate_diff" /\ Len(args.diff) > args.max_chars)
        => LET lines == Split(args.diff, "\n")
               fits  == FittingPrefixes(lines, args.max_chars)
           IN  /\ fits # {}
               /\ Longest(fits) < Len(lines)
               /\ ret = PrefixThenMarker(lines, Longest(fits))

\* C5, amended: as stated, and with no line before the marker when the budget
\* is negative (no prefix, not even the empty one, has a size within it).
C5_PrefixThenMarker ==
    (op = "_truncate_diff" /\ Len(args.diff) > args.max_chars)
        => LET lines == Split(args.diff, "\n")
               fits  == FittingPrefixes(lines, args.max_chars)
               k     == IF args.max_chars < 0 THEN 0 ELSE Longest(fits)
           IN  /\ args.max_chars >= 0 => fits # {}
               /\ k < Len(lines)
               /\ ret = PrefixThenMarker(lines, k)

\* C5's case: two lines were kept and the marker counts the lines left out.
C5_Witness ==
    /\ op = "_truncate_diff"
    /\ Len(args.diff) > args.max_chars
    /\ Len(Split(args.diff, "\n")) >= 4
    /\ ret = PrefixThenMarker(Split(args.diff, "\n"), 2)

\* the change kind the first character of a status token stands for
KindOfLetter(c) ==
    CASE c = "A" -> <<"a", "d", "d", "e", "d">>   [] c = "M" -> <<"m", "o", "d", "i", "f", "i", "e", "d">> [] c = "D" -> <<"d", "e", "l", "e", "t", "e", "d">>
      [] c = "R" -> <<"r", "e", "n", "a", "m", "e", "d">> [] c = "C" -> <<"c", "o", "p", "i", "e", "d">>   [] c = "T" -> <<"t", "y", "p", "e", "_", "c", "h", "a", "n", "g", "e", "d">>
      [] OTHER -> <<"u", "n", "k", "n", "o", "w", "n">>

ChangeKinds ==
    {<<"a", "d", "d", "e", "d">>, <<"m", "o", "d", "i", "f", "i", "e", "d">>, <<"d", "e", "l", "e", "t", "e", "d">>, <<"r", "e", "n", "a", "m", "e", "d">>, <<"c", "o", "p", "i", "e", "d">>, <<"t", "y", "p", "e", "_", "c", "h", "a", "n", "g", "e", "d">>,
     <<"u", "n", "k", "n", "o", "w", "n">>}

\* C6: _get_change_type maps every status token, the empty one included, to
\* the kind of its first character or to unknown, and raises nothing; every
\* FileChange of a report has one of the seven kinds.
C6_EveryTokenClassified ==
    /\ op = "_get_change_type"
           => /\ ~ret.raised
              /\ ret.value = IF args.status = <<>> THEN <<"u", "n", "k", "n", "o", "w", "n">>
                             ELSE KindOfLetter(args.status[1])
    /\ op = "get_file_changes"
           => \A i \in DOMAIN ret.file_changes :
                  ret.file_changes[i].change_type \in ChangeKinds

\* the fields of the report of a successful get_file_changes
SuccessFields ==
    {"branch_comparison", "total_files_changed", "file_changes", "diff_stats",
     "diff_content", "truncated", "original_diff_size", "change_summary"}

\* C10: the report get_file_changes returns when a query fails has every field
\* of a success report, and the error field besides.
C10_ErrorReportHasSuccessShape ==
    (op = "get_file_changes" /\ (\E q \in Queries : args.git[q].kind # "ok"))
        => DOMAIN ret = SuccessFields \cup {"error"}

\* the entries of file_changes that have the given change type
EntriesOfKind(file_changes, kind) ==
    {i \in DOMAIN file_changes : file_changes[i].change_type = kind}

\* the entries of file_changes whose filename holds a dot
Dotted(file_changes) ==
    {i \in DOMAIN file_changes :
        \E j \in DOMAIN file_changes[i].filename :
            file_changes[i].filename[j] = "."}

\* the text after the last dot of a filename that holds one
AfterLastDot(filename) ==
    LET dots == {j \in DOMAIN filename : filename[j] = "."}
        last == CHOOSE j \in dots : \A k \in dots : k <= j
    IN  SubSeq(filename, last + 1, Len(filename))

\* the four counters of a summary, added up
CountersSum(summary) ==
    summary.added + summary.modified + summary.deleted + summary.renamed

\* the number of copied, type_changed and unknown entries of file_changes
Untallied(file_changes) ==
    Cardinality(EntriesOfKind(file_changes, <<"c", "o", "p", "i", "e", "d">>)
                \cup EntriesOfKind(file_changes, <<"t", "y", "p", "e", "_", "c", "h", "a", "n", "g", "e", "d">>)
                \cup EntriesOfKind(file_changes, <<"u", "n", "k", "n", "o", "w", "n">>))

\* C11: the counters added, modified, deleted and renamed of a summary are the
\* numbers of entries of those kinds, entries of the other kinds adding to
\* none, so that they sum to at most the number of entries (in a report, the
\* total file count); file_types maps the text after the last dot of the
\* filenames that hold a dot, and nothing else, to the number of its
\* occurrences; directories is the set of the non-empty parent directories.
C11_SummaryCountsEntries ==
    /\ op = "_summarize_changes"
           => LET fc == args.file_changes
              IN  /\ ret.added = Cardinality(EntriesOfKind(fc, <<"a", "d", "d", "e", "d">>))
                  /\ ret.modified = Cardinality(EntriesOfKind(fc, <<"m", "o", "d", "i", "f", "i", "e", "d">>))
                  /\ ret.deleted = Cardinality(EntriesOfKind(fc, <<"d", "e", "l", "e", "t", "e", "d">>))
                  /\ ret.renamed = Cardinality(EntriesOfKind(fc, <<"r", "e", "n", "a", "m", "e", "d">>))
                  /\ CountersSum(ret) <= Len(fc)
                  /\ CountersSum(ret) = Len(fc) - Untallied(fc)
                  /\ DOMAIN ret.file_types =
                         {AfterLastDot(fc[i].filename) : i \in Dotted(fc)}
                  /\ \A ext \in DOMAIN ret.file_types :
                         ret.file_types[ext] =
                             Cardinality({i \in Dotted(fc) :
                                 AfterLastDot(fc[i].filename) = ext})
                  /\ ret.directories =
                         {dirname(fc[i].filename) : i \in DOMAIN fc} \ {<<>>}
    /\ (op = "get_file_changes" /\ ~IsError(ret))
           => /\ CountersSum(ret.change_summary) <= ret.total_files_changed
              /\ CountersSum(ret.change_summary) =
                     ret.total_files_changed - Untallied(ret.file_changes)

\* C11's case: the summary of an added file with an extension in a directory
\* and a copied file with neither has come back.
C11_Witness ==
    /\ op = "_summarize_changes"
    /\ Len(args.file_changes) = 2
    /\ args.file_changes[1].change_type = <<"a", "d", "d", "e", "d">>
    /\ args.file_changes[1].filename = <<"s", "r", "c", "/", "l", "i", "b", "/", "c", ".", "t", "a", "r", ".", "g", "z">>
    /\ args.file_changes[2].change_type = <<"c", "o", "p", "i", "e", "d">>
    /\ args.file_changes[2].filename = <<"M", "a", "k", "e", "f", "i", "l", "e">>
    /\ CountersSum(ret) = 1
    /\ DOMAIN ret.file_types = {<<"g", "z">>}
    /\ ret.directories = {<<"s", "r", "c", "/", "l", "i", "b">>}

\* the full diff of a get_file_changes call whose queries returned
FullDiffOf(git) == _run_git_command(git.diff).value

\* the text of a report's diff_content holds an elision marker
CarriesMarker(report) == Contains(report.diff_content, <<".", ".", ".", " ", "[", "D", "I", "F", "F", " ", "T", "R", "U", "N", "C", "A", "T", "E", "D", " ", "-", " ">>)

\* C12: a report of a successful get_file_changes, whatever max_tokens is, says
\* truncated = true exactly when the full diff is longer than max_tokens - 2000,
\* which is exactly when its diff_content is not the full diff; a report that
\* says truncated = false carries no elision marker.
C12_TruncatedTellsTruncation ==
    (op = "get_file_changes" /\ ~IsError(ret))
        => /\ ret.truncated
                  <=> Len(FullDiffOf(args.git)) > BudgetOf(args.max_tokens)
           /\ ret.truncated <=> ret.diff_content # FullDiffOf(args.git)
           /\ ~ret.truncated => ~CarriesMarker(ret)

-----------------------------------------------------------------------------
(* The claims about the tool analyze_file_changes.                         *)

QueryFailed(git) == \E q \in Queries : git[q].kind # "ok"

Emptied(report) ==
    /\ IsError(report)
    /\ report.error # <<>>
    /\ report.total_files_changed = 0
    /\ report.file_changes = <<>>

\* C2: when one of the three queries fails, get_file_changes returns a report
\* with a non-empty error, no files and a zero count, and the result of
\* analyze_file_changes carries that error, the zero count and no files,
\* whatever get_branch_info and get_commit_messages return.
C2_FailedQueryYieldsErrorReport ==
    (op = "analyze_file_changes" /\ "none" \notin DOMAIN changes
         /\ QueryFailed(args.git))
        => /\ Emptied(changes)
           /\ Emptied(ret)
           /\ ret.error = changes.error

\* C2's case: the stat query failed while branch and log were read.
C2_Witness ==
    /\ op = "analyze_file_changes"
    /\ "none" \notin DOMAIN changes
    /\ args.git.stat.kind = "CalledProcessError"
    /\ args.info.branch.kind = "ok" /\ args.info.log.kind = "ok"
    /\ Emptied(ret)
    /\ ret.branch_info.is_git_repo

\* C3: every analyze_file_changes call runs its git queries in the repository
\* its own repo_path names, "." being the server's current directory.
C3_RunsInNamedRepository ==
    (op = "analyze_file_changes" /\ "none" \notin DOMAIN changes)
        => ran_in = GitAnalyzer(args.repo_path).value

-----------------------------------------------------------------------------
(* The claims about the Suggestion Engine and the Template Store.          *)

\* the file names of a report, lower-cased, that hold one of the markers
Holding(names, markers) ==
    {i \in DOMAIN names : \E m \in markers : Contains(Lower(names[i]), m)}

\* C7: each file falls into the first bucket that matches (documentation,
\* test, configuration, code) and the first rule that matches picks the
\* suggestion: no file; more documentation than code files; fix, bug, error or
\* issue in the lower-cased text of the report; critical, urgent, hotfix or
\* production in it; none of these.  The confidence is low and the report is
\* returned as it was given.
C7_FirstMatchingRulePicks ==
    op = "get_template_suggestions"
        => LET report == args.change_analysis
               names  == IF "file_changes" \in DOMAIN report
                         THEN [i \in DOMAIN report.file_changes |->
                                  report.file_changes[i].filename]
                         ELSE <<>>
               docs   == Holding(names, {<<".", "m", "d">>, <<".", "t", "x", "t">>, <<".", "r", "s", "t">>, <<"r", "e", "a", "d", "m", "e">>, <<"d", "o", "c", "s", "/">>})
               tests  == Holding(names, {<<"t", "e", "s", "t", "_">>, <<"_", "t", "e", "s", "t">>, <<"s", "p", "e", "c", "_">>, <<"_", "s", "p", "e", "c">>,
                                         <<"t", "e", "s", "t", "s", "/">>}) \ docs
               config == Holding(names, {<<".", "j", "s", "o", "n">>, <<".", "y", "a", "m", "l">>, <<".", "y", "m", "l">>, <<".", "t", "o", "m", "l">>,
                                         <<".", "i", "n", "i">>, <<"c", "o", "n", "f", "i", "g">>}) \ (docs \cup tests)
               code   == DOMAIN names \ (docs \cup tests \cup config)
               text   == Lower(StrReport(report))
               Has(words) == \E w \in words : Contains(text, w)
           IN  /\ ret.confidence = <<"l", "o", "w">>
               /\ ret.analysis_data = report
               /\ IF Len(names) = 0
                  THEN ret.primary_suggestions = <<<<"f", "e", "a", "t", "u", "r", "e">>>>
                  ELSE IF Cardinality(docs) > Cardinality(code)
                  THEN /\ ret.primary_suggestions = <<<<"d", "o", "c", "s">>>>
                       /\ ret.secondary_suggestions = <<<<"f", "e", "a", "t", "u", "r", "e">>>>
                  ELSE IF Has({<<"f", "i", "x">>, <<"b", "u", "g">>, <<"e", "r", "r", "o", "r">>, <<"i", "s", "s", "u", "e">>})
                  THEN /\ ret.primary_suggestions = <<<<"b", "u", "g", "f", "i", "x">>>>
                       /\ ret.secondary_suggestions = <<<<"f", "e", "a", "t", "u", "r", "e">>>>
                  ELSE IF Has({<<"c", "r", "i", "t", "i", "c", "a", "l">>, <<"u", "r", "g", "e", "n", "t">>, <<"h", "o", "t", "f", "i", "x">>, <<"p", "r", "o", "d", "u", "c", "t", "i", "o", "n">>})
                  THEN /\ ret.primary_suggestions = <<<<"h", "o", "t", "f", "i", "x">>>>
                       /\ ret.secondary_suggestions = <<<<"b", "u", "g", "f", "i", "x">>>>
                  ELSE /\ ret.primary_suggestions = <<<<"f", "e", "a", "t", "u", "r", "e">>>>
                       /\ ret.secondary_suggestions = <<<<"d", "o", "c", "s">>, <<"b", "u", "g", "f", "i", "x">>>>

\* C7's case: a report of two files, one of them a documentation file that
\* also matches the test and configuration rules, got the hotfix suggestion.
C7_Witness ==
    /\ op = "get_template_suggestions"
    /\ "file_changes" \in DOMAIN args.change_analysis
    /\ Len(args.change_analysis.file_changes) = 2
    /\ args.change_analysis.file_changes[1].filename = <<"d", "o", "c", "s", "/", "t", "e", "s", "t", "_", "c", "o", "n", "f", "i", "g", ".", "p", "y">>
    /\ ret.primary_suggestions = <<<<"h", "o", "t", "f", "i", "x">>>>
    /\ ret.secondary_suggestions = <<<<"b", "u", "g", "f", "i", "x">>>>

\* the template names a listing of the directory has
Listed == {n \in TemplateNames : files[n \o <<".", "m", "d">>] # NoFile}

\* C8: validate_pr_description answers a name that is not listed with
\* valid = false and the listed names, and a listed name with the basic checks:
\* has_description says the description is not blank, reasonable_length that
\* its length is from 11 to 4999, contains_checklist that it holds "- [ ]" or
\* "- [x]".
C8_ValidationPayload ==
    op = "validate_pr_description"
        => LET d == args.description
           IN  IF args.template_name \notin Listed
               THEN /\ DOMAIN ret = {"valid", "error", "available_templates"}
                    /\ ret.valid = FALSE
                    /\ ret.available_templates = Listed
               ELSE /\ "valid" \notin DOMAIN ret
                    /\ "basic_checks" \in DOMAIN ret
                    /\ ret.basic_checks.has_description
                           = (\E i \in DOMAIN d : d[i] \notin Whitespace)
                    /\ ret.basic_checks.reasonable_length
                           = (11 <= Len(d) /\ Len(d) <= 4999)
                    /\ ret.basic_checks.contains_checklist
                           = (Contains(d, <<"-", " ", "[", " ", "]">>) \/ Contains(d, <<"-", " ", "[", "x", "]">>))

\* C8's case: the empty description was validated against the template
\* feature, which exists.
C8_Witness ==
    /\ op = "validate_pr_description"
    /\ args.description = <<>>
    /\ args.template_name = <<"f", "e", "a", "t", "u", "r", "e">>
    /\ "basic_checks" \in DOMAIN ret
    /\ ~ret.basic_checks.has_description
    /\ ~ret.basic_checks.reasonable_length

\* C9: a listing maps every name that was created with success to the content
\* of its last successful create, and a create that fails returns false.
C9_ListingHoldsLastCreated ==
    /\ (op = "get_pr_templates" /\ args.unreadable = {})
           => \A n \in TemplateNames :
                  last_ok[n] # None
                      => /\ n \in DOMAIN ret.templates
                         /\ ret.templates[n].content = last_ok[n]
    /\ (op = "create_custom_template" /\ args.outcome # "ok") => ret = FALSE

====
